---- MODULE Spec2Model ----
(***************************************************************************)
(* The AR placement state machine of src/app.js (the variant with the     *)
(* model menu, lines 194-443): session lifecycle, asynchronous hit-test    *)
(* source acquisition, per-frame sampling, placement on select, model     *)
(* (re)loading, and the reset done when a session ends.                   *)
(*                                                                         *)
(* The module-level `let` globals of app.js are the variables below with  *)
(* the same names.  Handlers are operators from a record of the globals   *)
(* to a record of the globals, so that an event that runs several         *)
(* handlers (the end of a session) is their composition.                  *)
(***************************************************************************)
EXTENDS Integers, Sequences, FiniteSets, TLC

\* ------------------------------------------------------------------ bounds
MaxSessions == 2    \* AR sessions entered during one run of the page
MaxLoads    == 2    \* loadSplatModel() calls, the one made by init() included
MaxHits     == 2    \* hit results one device frame may yield


\* ------------------------------------------------------- values and inputs
\* THREE.Vector3 as <<x, y, z>>.
DefaultPosition == <<0, 1, 0>>
UnitScale       == <<1, 1, 1>>
\* THREE.Quaternion as <<x, y, z, w>>; a new Object3D has the identity.
IdentityQuaternion == <<0, 0, 0, 1>>
\* THREE.Matrix4 as its 16 elements in column-major order; a new Mesh has
\* the identity matrix.
IdentityMatrix == <<1,0,0,0, 0,1,0,0, 0,0,1,0, 0,0,0,1>>

\* The poses a hit result may report: a surface point and a rotation (3x3,
\* column-major), here none and half a turn about the Y axis.
Poses ==
    { [position |-> <<1, 0, 2>>, rotation |-> <<1,0,0, 0,1,0, 0,0,1>>],
      [position |-> <<2, 0, 1>>, rotation |-> <<-1,0,0, 0,1,0, 0,0,-1>>] }

\* hit.getPose(referenceSpace).transform.matrix: the 4x4 rigid transform of
\* a pose, column-major, the translation in elements 12..14 (here 13..15).
TransformMatrix(pose) ==
    LET r == pose.rotation
        p == pose.position
    IN  << r[1], r[2], r[3], 0,
           r[4], r[5], r[6], 0,
           r[7], r[8], r[9], 0,
           p[1], p[2], p[3], 1 >>

\* Matrix4.fromArray(array): copies the 16 elements.
FromArray(array) == [i \in 1..16 |-> array[i]]

\* Matrix4.decompose(position, quaternion, scale): position is the fourth
\* column.  onSelect reads only `position`; its `quaternion` and `scale`
\* locals are never used, so they are not computed here.
Decompose(matrix) == [position |-> <<matrix[13], matrix[14], matrix[15]>>]

\* frame.getHitTestResults(source): zero to MaxHits results, each surface
\* the ray meets reported once.
RECURSIVE SeqsUpTo(_, _)
SeqsUpTo(S, n) ==
    IF n = 0 THEN { <<>> }
    ELSE LET shorter == SeqsUpTo(S, n - 1)
         IN  shorter \cup
             { Append(s, x) : s \in { t \in shorter : Len(t) = n - 1 }, x \in S }
Distinct(s) == \A i, j \in 1..Len(s) : i # j => s[i] # s[j]
HitTestResults == { s \in SeqsUpTo(Poses, MaxHits) : Distinct(s) }

\* Text as a sequence of characters.
DEFAULT_URL == <<"d">>
Whitespace  == { " " }
UrlInputs   == { <<>>, <<" ">>, <<" ", "a", " ">> }
FileInputs  == { <<>>, << <<"f">> >> }     \* e.target.files: empty or one file

\* String.prototype.trim()
RECURSIVE TrimStart(_)
TrimStart(s) == IF s # <<>> /\ Head(s) \in Whitespace THEN TrimStart(Tail(s)) ELSE s
RECURSIVE TrimEnd(_)
TrimEnd(s) ==
    IF s # <<>> /\ s[Len(s)] \in Whitespace THEN TrimEnd(SubSeq(s, 1, Len(s) - 1)) ELSE s
Trim(s) == TrimEnd(TrimStart(s))

\* URL.createObjectURL(file)
CreateObjectURL(file) == <<"blob:">> \o file

\* --------------------------------------------------------------- variables
VARIABLES
    \* globals of app.js
    hitTestSource,          \* 0 is null; otherwise the session whose chain made it
    hitTestSourceRequested,
    splat,                  \* the asset object; id 0 is null
    controls,               \* [enabled]
    reticle,                \* [visible, matrix]
    currentSplatURL,
    \* objects the globals refer to
    scene,                  \* ids of the asset instances attached to the scene
    disposed,               \* ids of the asset instances dispose() was called on
    created,                \* number of asset instances constructed so far
    loadingEl,              \* [innerText, opacity] of the #loading element
    overlay,                \* style.display of #menu-overlay
    arActive,               \* document.body has class 'ar-active'
    chains,                 \* the request chains started, in order
    \* the host
    session,                \* renderer.xr.getSession(): 0 when not presenting
    sessions,               \* AR sessions started so far
    pending,                \* asset instances whose load has not been reported yet
    loadState,              \* of the current instance: "Loading", "Ready", "Failed"
    \* history
    liveAtConstruct         \* instances not yet removed and disposed when one was constructed

vars == << hitTestSource, hitTestSourceRequested, splat, controls, reticle,
           currentSplatURL, scene, disposed, created, loadingEl, overlay, arActive,
           chains, session, sessions, pending, loadState, liveAtConstruct >>

\* The state the handlers of app.js read and write, as one record.
Globals ==
    [ hitTestSource          |-> hitTestSource,
      hitTestSourceRequested |-> hitTestSourceRequested,
      splat                  |-> splat,
      controls               |-> controls,
      reticle                |-> reticle,
      currentSplatURL        |-> currentSplatURL,
      scene                  |-> scene,
      disposed               |-> disposed,
      created                |-> created,
      loadingEl              |-> loadingEl,
      overlay                |-> overlay,
      arActive               |-> arActive,
      chains                 |-> chains,
      liveAtConstruct        |-> liveAtConstruct ]

Becomes(g) ==
    /\ hitTestSource' = g.hitTestSource
    /\ hitTestSourceRequested' = g.hitTestSourceRequested
    /\ splat' = g.splat
    /\ controls' = g.controls
    /\ reticle' = g.reticle
    /\ currentSplatURL' = g.currentSplatURL
    /\ scene' = g.scene
    /\ disposed' = g.disposed
    /\ created' = g.created
    /\ loadingEl' = g.loadingEl
    /\ overlay' = g.overlay
    /\ arActive' = g.arActive
    /\ chains' = g.chains
    /\ liveAtConstruct' = g.liveAtConstruct

NullSplat ==
    [ id |-> 0, source |-> <<>>, visible |-> FALSE, position |-> <<0, 0, 0>>,
      scale |-> UnitScale, quaternion |-> IdentityQuaternion ]


\* The globals before init() runs (app.js 204-211) and the page as loaded.
BeforeInit ==
    [ hitTestSource          |-> 0,
      hitTestSourceRequested |-> FALSE,
      splat                  |-> NullSplat,
      controls               |-> [enabled |-> TRUE],
      reticle                |-> [visible |-> TRUE, matrix |-> IdentityMatrix],
      currentSplatURL        |-> DEFAULT_URL,
      scene                  |-> {},
      disposed               |-> {},
      created                |-> 0,
      loadingEl              |-> [innerText |-> "", opacity |-> "1"],
      overlay                |-> "none",
      arActive               |-> FALSE,
      chains                 |-> <<>>,
      liveAtConstruct        |-> {} ]

\* ---------------------------------------------------------------- handlers
\* Faulty variant of loadSplatModel: the previous instance is not cleaned up
\* (as in the first version of the function, app.js 61-79).
LoadSplatModelNoCleanup(g, url) ==
    LET id == g.created + 1
        constructed ==
            [g EXCEPT
                !.loadingEl = [innerText |-> "Loading Model...", opacity |-> "1"],
                !.splat = [ id |-> id, source |-> url, visible |-> TRUE,
                            position |-> <<0, 1, 0>>, scale |-> <<1, 1, 1>>,
                            quaternion |-> IdentityQuaternion ],
                !.created = id,
                !.liveAtConstruct = @ \cup ((1..g.created) \ g.disposed) \cup g.scene]
    IN  [constructed EXCEPT !.scene = @ \cup {id}, !.currentSplatURL = url]

\* loadSplatModel(url).  LumaSplatsThree has a dispose method, so the
\* `if (splat.dispose)` test passes.  A new Object3D is visible, at the
\* origin, with unit scale and the identity quaternion.
LoadSplatModel(g, url) ==
    LET cleaned ==
            IF g.splat.id # 0
            THEN [g EXCEPT !.scene = @ \ {g.splat.id},
                           !.disposed = @ \cup {g.splat.id},
                           !.splat = NullSplat]
            ELSE g
        shown == [cleaned EXCEPT !.loadingEl =
                      [innerText |-> "Loading Model...", opacity |-> "1"]]
        id == shown.created + 1
        constructed ==
            [shown EXCEPT
                !.splat = [ id |-> id, source |-> url, visible |-> TRUE,
                            position |-> <<0, 0, 0>>, scale |-> <<1, 1, 1>>,
                            quaternion |-> IdentityQuaternion ],
                !.created = id,
                !.liveAtConstruct =
                    @ \cup ((1..shown.created) \ shown.disposed) \cup shown.scene]
        placed == [constructed EXCEPT !.splat.scale = <<1, 1, 1>>,
                                      !.splat.position = <<0, 1, 0>>]
    IN  [placed EXCEPT !.scene = @ \cup {placed.splat.id},
                       !.currentSplatURL = url]

\* splat.onLoad
OnLoad(g) == [g EXCEPT !.loadingEl.opacity = "0"]

\* splat.onError
OnError(g) == [g EXCEPT !.loadingEl.innerText = "Error loading model"]

\* menuBtn and closeBtn 'click'
OnMenuClick(g) == [g EXCEPT !.overlay = "flex"]
OnCloseClick(g) == [g EXCEPT !.overlay = "none"]

\* loadUrlBtn 'click', urlInput.value = value
OnLoadUrlClick(g, value) ==
    LET url == Trim(value)
    IN  IF url # <<>>
        THEN [LoadSplatModel(g, url) EXCEPT !.overlay = "none"]
        ELSE g

\* fileInput 'change', e.target.files = files
OnFileChange(g, files) ==
    IF Len(files) > 0
    THEN [LoadSplatModel(g, CreateObjectURL(files[1])) EXCEPT !.overlay = "none"]
    ELSE g

\* setupWebXR(): the reticle is created (a new Mesh is visible, with the
\* identity matrix) and hidden.
SetupWebXR(g) ==
    [g EXCEPT !.reticle = [visible |-> FALSE, matrix |-> IdentityMatrix]]

\* Faulty variant of the 'sessionstart' handler: the orbit controls are left
\* enabled.
OnSessionStartControlsOn(g) ==
    [g EXCEPT !.arActive = TRUE,
              !.splat.visible = FALSE]

\* Faulty variant of the 'sessionstart' handler: the asset is not hidden.
OnSessionStartKeepsVisible(g) ==
    [g EXCEPT !.arActive = TRUE,
              !.controls.enabled = FALSE]

\* renderer.xr 'sessionstart'
OnSessionStart(g) ==
    [g EXCEPT !.arActive = TRUE,
              !.controls.enabled = FALSE,
              !.splat.visible = FALSE]

\* Faulty variant of the 'sessionend' handler: the asset's visibility is
\* toggled instead of set.
OnSessionEndToggle(g) ==
    [g EXCEPT !.arActive = FALSE,
              !.controls.enabled = TRUE,
              !.splat.visible = ~@,
              !.splat.position = <<0, 1, 0>>,
              !.splat.scale = <<1, 1, 1>>,
              !.hitTestSource = 0,
              !.hitTestSourceRequested = FALSE]

\* Faulty variant of the 'sessionend' handler: the hit-test state is left to
\* the session's 'end' listener.
OnSessionEndNoClear(g) ==
    [g EXCEPT !.arActive = FALSE,
              !.controls.enabled = TRUE,
              !.splat.visible = TRUE,
              !.splat.position = <<0, 1, 0>>,
              !.splat.scale = <<1, 1, 1>>]

\* Faulty variant of the 'sessionend' handler: the asset stays where the
\* session left it.
OnSessionEndKeepsPlacement(g) ==
    [g EXCEPT !.arActive = FALSE,
              !.controls.enabled = TRUE,
              !.splat.visible = TRUE,
              !.splat.scale = <<1, 1, 1>>,
              !.hitTestSource = 0,
              !.hitTestSourceRequested = FALSE]

\* renderer.xr 'sessionend'
OnSessionEnd(g) ==
    [g EXCEPT !.arActive = FALSE,
              !.controls.enabled = TRUE,
              !.splat.visible = TRUE,
              !.splat.position = <<0, 1, 0>>,
              !.splat.scale = <<1, 1, 1>>,
              !.hitTestSource = 0,
              !.hitTestSourceRequested = FALSE]

\* The session 'end' listener render() registers when it starts a chain.
OnEnd(g) ==
    [g EXCEPT !.hitTestSourceRequested = FALSE,
              !.hitTestSource = 0]

\* Faulty variant of onSelect: the asset is moved but not shown.
OnSelectKeepHidden(g) ==
    IF g.reticle.visible /\ g.splat.id # 0
    THEN [g EXCEPT !.splat.position = Decompose(g.reticle.matrix).position]
    ELSE g

\* Faulty variant of onSelect: the reticle's visibility is not tested.
OnSelectUnguarded(g) ==
    IF g.splat.id # 0
    THEN [g EXCEPT !.splat.visible = TRUE,
                   !.splat.position = Decompose(g.reticle.matrix).position]
    ELSE g

\* controller 'select'
OnSelect(g) ==
    IF g.reticle.visible /\ g.splat.id # 0
    THEN [g EXCEPT !.splat.visible = TRUE,
                   !.splat.position = Decompose(g.reticle.matrix).position]
    ELSE g

\* A device frame: present or null, with the hit results it would yield.
NullFrame == [present |-> FALSE, results |-> <<>>]
DeviceFrames == [present : {TRUE}, results : HitTestResults]

\* Faulty variant of render: the requested flag is not set in the frame that
\* starts the chain.
RenderFlagNotSet(g, frame, xrSession) ==
    IF frame.present
    THEN LET requested ==
                 IF g.hitTestSourceRequested = FALSE
                 THEN [g EXCEPT
                         !.chains = Append(@, [sess |-> xrSession, step |-> "refspace"])]
                 ELSE g
         IN  IF requested.hitTestSource # 0
             THEN IF Len(frame.results) > 0
                  THEN [requested EXCEPT
                          !.reticle.visible = TRUE,
                          !.reticle.matrix = FromArray(TransformMatrix(frame.results[1]))]
                  ELSE [requested EXCEPT !.reticle.visible = FALSE]
             ELSE requested
    ELSE g

\* Faulty variant of render: the last hit result is used, not the first.
RenderLastHit(g, frame, xrSession) ==
    IF frame.present
    THEN LET requested ==
                 IF g.hitTestSourceRequested = FALSE
                 THEN [g EXCEPT
                         !.chains = Append(@, [sess |-> xrSession, step |-> "refspace"]),
                         !.hitTestSourceRequested = TRUE]
                 ELSE g
         IN  IF requested.hitTestSource # 0
             THEN IF Len(frame.results) > 0
                  THEN [requested EXCEPT
                          !.reticle.visible = TRUE,
                          !.reticle.matrix =
                              FromArray(TransformMatrix(frame.results[Len(frame.results)]))]
                  ELSE [requested EXCEPT !.reticle.visible = FALSE]
             ELSE requested
    ELSE g

\* render(timestamp, frame) with renderer.xr.getSession() = xrSession.
\* Starting the chain registers the 'end' listener on the same session:
\* the listeners of a session are its chains.
Render(g, frame, xrSession) ==
    IF frame.present
    THEN LET requested ==
                 IF g.hitTestSourceRequested = FALSE
                 THEN [g EXCEPT
                         !.chains = Append(@, [sess |-> xrSession, step |-> "refspace"]),
                         !.hitTestSourceRequested = TRUE]
                 ELSE g
         IN  IF requested.hitTestSource # 0
             THEN IF Len(frame.results) > 0
                  THEN [requested EXCEPT
                          !.reticle.visible = TRUE,
                          !.reticle.matrix = FromArray(TransformMatrix(frame.results[1]))]
                  ELSE [requested EXCEPT !.reticle.visible = FALSE]
             ELSE requested
    ELSE g      \* controls.update() moves only the camera

\* What the frame sampled (app.js 426-436): a hit only with a source stored
\* and at least one result.
Sample(g, frame) ==
    IF g.hitTestSource # 0 /\ Len(frame.results) > 0 THEN "hit" ELSE "nohit"

\* .then of requestReferenceSpace for chain i: requestHitTestSource is issued.
OnReferenceSpace(g, i) == [g EXCEPT !.chains[i].step = "source"]

\* .then of requestHitTestSource for chain i: the source made for the
\* chain's session is stored.
OnHitTestSource(g, i) ==
    [g EXCEPT !.hitTestSource = g.chains[i].sess,
              !.chains[i].step = "resolved"]

\* Either request of chain i is rejected: there is no catch handler.
OnRejected(g, i) == [g EXCEPT !.chains[i].step = "rejected"]

\* Number of 'end' listeners app.js has registered on session s.
EndListeners(g, s) == Cardinality({ i \in 1..Len(g.chains) : g.chains[i].sess = s })

\* The n 'end' listeners of a session run one after the other.
RECURSIVE RunEndListeners(_, _)
RunEndListeners(g, n) == IF n = 0 THEN g ELSE RunEndListeners(OnEnd(g), n - 1)

\* End handling that leaves hitTestSourceRequested as it was.
HandleEndKeepsFlag(g, s) ==
    [RunEndListeners(OnSessionEnd(g), EndListeners(g, s))
        EXCEPT !.hitTestSourceRequested = g.hitTestSourceRequested]

\* The end of session s as the handlers see it: 'sessionend', then the
\* session's 'end' listeners.
HandleEnd(g, s) == RunEndListeners(OnSessionEnd(g), EndListeners(g, s))


\* ----------------------------------------------------------------- actions
\* The state after init(): loadSplatModel(DEFAULT_URL), then setupWebXR().
AfterInit == SetupWebXR(LoadSplatModel(BeforeInit, DEFAULT_URL))

Init ==
    /\ hitTestSource = AfterInit.hitTestSource
    /\ hitTestSourceRequested = AfterInit.hitTestSourceRequested
    /\ splat = AfterInit.splat
    /\ controls = AfterInit.controls
    /\ reticle = AfterInit.reticle
    /\ currentSplatURL = AfterInit.currentSplatURL
    /\ scene = AfterInit.scene
    /\ disposed = AfterInit.disposed
    /\ created = AfterInit.created
    /\ loadingEl = AfterInit.loadingEl
    /\ overlay = AfterInit.overlay
    /\ arActive = AfterInit.arActive
    /\ chains = AfterInit.chains
    /\ liveAtConstruct = AfterInit.liveAtConstruct
    /\ session = 0
    /\ sessions = 0
    /\ pending = 1..AfterInit.created
    /\ loadState = "Loading"

\* The asset provider starts loading every instance constructed by the step.
Constructed(g) ==
    /\ pending' = pending \cup ((created + 1)..g.created)
    /\ loadState' = IF g.created > created THEN "Loading" ELSE loadState

\* A settled chain is kept while the session it settled in lasts; a pending
\* chain is kept until it settles.
Collect(s, now) ==
    IF now = 0 THEN SelectSeq(s, LAMBDA c : c.step \in {"refspace", "source"}) ELSE s

\* The user enters AR: the renderer dispatches 'sessionstart'.
SessionStart ==
    /\ session = 0
    /\ sessions < MaxSessions
    /\ session' = sessions + 1
    /\ sessions' = sessions + 1
    /\ Becomes(OnSessionStart(Globals))
    /\ UNCHANGED << pending, loadState >>

\* The session ends: its 'end' event runs the renderer's listener, which
\* dispatches 'sessionend', and the listeners render() registered on the
\* session.  The renderer registers its listener when the session is set,
\* before any frame, so it runs first.
SessionEnd ==
    /\ session # 0
    /\ LET g == HandleEnd(Globals, session)
       IN  Becomes([g EXCEPT !.chains = Collect(@, 0)])
    /\ session' = 0
    /\ UNCHANGED << sessions, pending, loadState >>

\* The animation loop calls render with a device frame, while presenting.
Frame ==
    /\ session # 0
    /\ \E frame \in DeviceFrames :
          Becomes(Render(Globals, frame, session))
    /\ UNCHANGED << session, sessions, pending, loadState >>

\* The animation loop calls render without a device frame, while not presenting.
FrameNoDevice ==
    /\ session = 0
    /\ Becomes(Render(Globals, NullFrame, session))
    /\ UNCHANGED << session, sessions, pending, loadState >>

\* The user taps while presenting.
Select ==
    /\ session # 0
    /\ Becomes(OnSelect(Globals))
    /\ UNCHANGED << session, sessions, pending, loadState >>

\* requestReferenceSpace of a chain resolves, at any later time.
ReferenceSpaceResolved ==
    /\ \E i \in 1..Len(chains) :
          /\ chains[i].step = "refspace"
          /\ Becomes(OnReferenceSpace(Globals, i))
    /\ UNCHANGED << session, sessions, pending, loadState >>

\* requestHitTestSource of a chain resolves, at any later time.
HitTestSourceResolved ==
    /\ \E i \in 1..Len(chains) :
          /\ chains[i].step = "source"
          /\ LET g == OnHitTestSource(Globals, i)
             IN  Becomes([g EXCEPT !.chains = Collect(@, session)])
    /\ UNCHANGED << session, sessions, pending, loadState >>

\* Either request of a chain is rejected.
ChainRejected ==
    /\ \E i \in 1..Len(chains) :
          /\ chains[i].step \in {"refspace", "source"}
          /\ LET g == OnRejected(Globals, i)
             IN  Becomes([g EXCEPT !.chains = Collect(@, session)])
    /\ UNCHANGED << session, sessions, pending, loadState >>

\* The user presses the menu button.
MenuClick ==
    /\ Becomes(OnMenuClick(Globals))
    /\ UNCHANGED << session, sessions, pending, loadState >>

\* The user presses the close button of the menu.
CloseClick ==
    /\ Becomes(OnCloseClick(Globals))
    /\ UNCHANGED << session, sessions, pending, loadState >>

\* The user presses "load" with some text in the URL box.
LoadUrlClick ==
    /\ created < MaxLoads
    /\ \E value \in UrlInputs :
          LET g == OnLoadUrlClick(Globals, value)
          IN  /\ Becomes(g)
              /\ Constructed(g)
    /\ UNCHANGED << session, sessions >>

\* The user picks (or cancels picking) a file.
FileChange ==
    /\ created < MaxLoads
    /\ \E files \in FileInputs :
          LET g == OnFileChange(Globals, files)
          IN  /\ Becomes(g)
              /\ Constructed(g)
    /\ UNCHANGED << session, sessions >>

\* The asset provider reports an instance loaded, replaced or not.
AssetLoaded ==
    /\ \E a \in pending :
          /\ pending' = pending \ {a}
          /\ loadState' = IF a = splat.id THEN "Ready" ELSE loadState
    /\ Becomes(OnLoad(Globals))
    /\ UNCHANGED << session, sessions >>

\* The asset provider reports an instance failed, replaced or not.
AssetFailed ==
    /\ \E a \in pending :
          /\ pending' = pending \ {a}
          /\ loadState' = IF a = splat.id THEN "Failed" ELSE loadState
    /\ Becomes(OnError(Globals))
    /\ UNCHANGED << session, sessions >>

Next ==
    \/ SessionStart
    \/ SessionEnd
    \/ Frame
    \/ FrameNoDevice
    \/ Select
    \/ ReferenceSpaceResolved
    \/ HitTestSourceResolved
    \/ ChainRejected
    \/ MenuClick
    \/ CloseClick
    \/ LoadUrlClick
    \/ FileChange
    \/ AssetLoaded
    \/ AssetFailed

Spec == Init /\ [][Next]_vars


\* -------------------------------------------------------------- properties
\* Request chains started so far for session s.
StartedFor(s) == Cardinality({ i \in 1..Len(chains) : chains[i].sess = s })
StartedForNext(s) == Cardinality({ i \in 1..Len(chains') : chains'[i].sess = s })

\* C1: within one AR session, after every AR frame (the first or any later
\* one, whatever the chain has done meanwhile) exactly one request chain has
\* been started for the session and the requested flag is set.
C1_SingleAcquisition ==
    [][Frame => (StartedForNext(session) = 1 /\ hitTestSourceRequested')]_vars

\* C1 witness: in the first session the reticle is visible, so a frame ran
\* after the chain started by an earlier frame had resolved, and one chain
\* has been started.
C1_Witness ==
    session = 1 /\ reticle.visible /\ hitTestSource = 1 /\ StartedFor(1) = 1

\* C2: while a session is presenting, hitTestSource is null or the source
\* made by that session's own request, never the source of an earlier one.
C2_StaleResolutionImmunity ==
    session # 0 => hitTestSource \in {0, session}

\* C3: hitTestSource is non-null only if the requested flag is set and a
\* session is presenting.
C3_SourceOnlyWhileActive ==
    hitTestSource # 0 => (hitTestSourceRequested /\ session # 0)

\* C4: right after the end of a session is handled, the source is null, the
\* flag is clear, the reticle is hidden and the asset is visible at its
\* default position with unit scale.
C4_ResetCompleteness ==
    [][SessionEnd =>
         /\ hitTestSource' = 0
         /\ hitTestSourceRequested' = FALSE
         /\ reticle'.visible = FALSE
         /\ splat'.visible = TRUE
         /\ splat'.position = DefaultPosition
         /\ splat'.scale = UnitScale]_vars

\* No hit-test source has been stored since the current session started.
NoSourceResolved == \A i \in 1..Len(chains) : chains[i].step # "resolved"

\* C5: in a session during which no hit-test source has resolved, the
\* reticle is hidden and any frame would sample "no hit".
C5_DegradedMode ==
    (session # 0 /\ NoSourceResolved) =>
        /\ reticle.visible = FALSE
        /\ \A frame \in DeviceFrames : Sample(Globals, frame) = "nohit"

\* C6: a select with the reticle visible at a reported pose and an asset
\* present shows the asset at the position of that pose and leaves its
\* orientation, its scale and its identity as they were.
C6_PlacementCommit ==
    [][(Select /\ reticle.visible /\ splat.id # 0) =>
         /\ splat'.visible = TRUE
         /\ \E pose \in Poses :
               /\ reticle.matrix = FromArray(TransformMatrix(pose))
               /\ splat'.position = pose.position
         /\ splat'.quaternion = splat.quaternion
         /\ splat'.scale = splat.scale
         /\ splat'.id = splat.id]_vars

\* C6 witness: the asset is shown at a reported surface point while the
\* reticle is visible during a session: a placement was committed.
C6_Witness ==
    /\ session # 0
    /\ reticle.visible
    /\ splat.visible
    /\ splat.position = <<2, 0, 1>>
    /\ Decompose(reticle.matrix).position = <<2, 0, 1>>

\* C7: a select with the reticle hidden (or no asset) changes nothing.
C7_InvalidSelectNoOp ==
    [][(Select /\ ~(reticle.visible /\ splat.id # 0)) => UNCHANGED vars]_vars

\* C7 witness: a session in which the reticle is hidden although a source is
\* stored and the asset is still hidden: a select here is the invalid one.
C7_Witness ==
    /\ session # 0
    /\ hitTestSource # 0
    /\ ~reticle.visible
    /\ ~splat.visible

\* C8: exactly one asset instance is attached to the scene, the one the last
\* load created; every earlier instance has been disposed, and none was
\* still attached or undisposed when its replacement was constructed.
C8_SingleLiveAsset ==
    /\ scene = {splat.id}
    /\ splat.id = created
    /\ disposed = 1..(created - 1)
    /\ liveAtConstruct = {}

\* C8 witness: a load has replaced the initial asset.
C8_Witness == created >= 2 /\ 1 \in disposed /\ splat.id = created

\* C9: from every reachable state, handling the end of a session twice in a
\* row gives the state that handling it once gives.
C9_EndIdempotent ==
    /\ OnSessionEnd(OnSessionEnd(Globals)) = OnSessionEnd(Globals)
    /\ HandleEnd(HandleEnd(Globals, session), session) = HandleEnd(Globals, session)

\* C9 witness: a session has ended after a surface was found (the reticle
\* still shows it), the end has been handled, and handling it again gives
\* this same state.
C9_Witness ==
    /\ session = 0
    /\ sessions >= 1
    /\ reticle.visible
    /\ hitTestSource = 0
    /\ splat.position = DefaultPosition
    /\ OnSessionEnd(Globals) = Globals

\* A step that constructs an asset instance.
LoadStep == (LoadUrlClick \/ FileChange) /\ created' > created

\* C10: an asset loaded during a session is hidden after the load and stays
\* hidden until a placement or the end of the session; an asset loaded
\* outside a session is visible.
C10_LoadVisibilityByMode ==
    [][/\ LoadStep => (splat'.visible = (session = 0))
       /\ (session # 0 /\ ~splat.visible /\ ~Select /\ ~SessionEnd) => ~splat'.visible]_vars

\* A step in which the asset provider reports instance a, loaded or failed.
Notified(a) == (AssetLoaded \/ AssetFailed) /\ a \in pending /\ a \notin pending'

\* C11: a notification of an instance that a later load has replaced is
\* ignored: the loading indicator and the current asset stay as they were.
C11_SupersededNotificationIgnored ==
    [][\A a \in pending :
          (Notified(a) /\ a # splat.id) =>
              /\ loadingEl' = loadingEl
              /\ splat' = splat
              /\ loadState' = loadState
              /\ scene' = scene]_vars

\* C12: once the current asset has failed to load, the failure indicator is
\* shown, no asset is attached to the scene or visible, and a select with the
\* reticle visible does not show the failed asset.
C12_FailedAssetRemoved ==
    [][/\ (Notified(splat.id) /\ AssetFailed) =>
              /\ loadingEl'.innerText = "Error loading model"
              /\ scene' = {}
              /\ splat'.visible = FALSE
       /\ (Select /\ loadState = "Failed" /\ reticle.visible) => splat'.visible = FALSE]_vars

\* The chain started for the current session has been rejected.
OwnChainRejected ==
    \E i \in 1..Len(chains) : chains[i].sess = session /\ chains[i].step = "rejected"

\* C13: once the chain of the current session has been rejected, no second
\* chain is started for the session, hitTestSource is null, the requested
\* flag is set, and any frame would sample "no hit".
C13_NoRetryAfterRejection ==
    (session # 0 /\ OwnChainRejected) =>
        /\ StartedFor(session) = 1
        /\ hitTestSource = 0
        /\ hitTestSourceRequested = TRUE
        /\ \A frame \in DeviceFrames : Sample(Globals, frame) = "nohit"

\* C14: orbit controls are enabled exactly when no session is presenting
\* (Inspection mode) and disabled exactly while one is (AR mode); the mode and
\* controls.enabled change only when a session starts or ends.
C14_ControlsFollowMode ==
    /\ [](controls.enabled = (session = 0) /\ arActive = (session # 0))
    /\ [][(controls' # controls \/ session' # session \/ arActive' # arActive)
             => (SessionStart \/ SessionEnd)]_vars

\* C14 witness: a session is presenting with the controls disabled after a
\* load, a frame and a placement happened in it.
C14_Witness ==
    /\ session # 0
    /\ controls.enabled = FALSE
    /\ created >= 2
    /\ hitTestSourceRequested
    /\ splat.position # DefaultPosition

Sampled(frame) ==
    /\ session # 0
    /\ UNCHANGED << session, sessions, pending, loadState >>
    /\ Becomes(Render(Globals, frame, session))

\* The rotation (3x3, column-major) and the translation of a Matrix4.
RotationOf(m) == << m[1], m[2], m[3], m[5], m[6], m[7], m[9], m[10], m[11] >>
TranslationOf(m) == << m[13], m[14], m[15] >>

\* C16: an AR frame processed while a hit-test source is stored makes the
\* reticle visible at the pose of the first hit result if there is one, and
\* hides the reticle if there is none.
C16_SamplingWithSource ==
    [][(session # 0 /\ hitTestSource # 0) =>
          \A frame \in DeviceFrames :
              Sampled(frame) =>
                  IF Len(frame.results) > 0
                  THEN /\ reticle'.visible = TRUE
                       /\ TranslationOf(reticle'.matrix) = frame.results[1].position
                       /\ RotationOf(reticle'.matrix) = frame.results[1].rotation
                  ELSE reticle'.visible = FALSE]_vars

\* C16 witness: with the session's own source stored, a frame has put the
\* visible reticle at the turned pose at (2, 0, 1).
C16_Witness ==
    /\ session # 0
    /\ hitTestSource = session
    /\ reticle.visible
    /\ TranslationOf(reticle.matrix) = <<2, 0, 1>>
    /\ RotationOf(reticle.matrix) = <<-1,0,0, 0,1,0, 0,0,-1>>

\* C17: a select changes the position and the visibility of the asset only
\* if the asset's load state is Ready, and never creates, replaces or
\* disposes an asset instance.
C17_PlacementOnlyWhenReady ==
    [][Select =>
         /\ loadState # "Ready" =>
               (splat'.position = splat.position /\ splat'.visible = splat.visible)
         /\ splat'.id = splat.id
         /\ created' = created
         /\ scene' = scene
         /\ disposed' = disposed]_vars

\* Chain i, started by the presenting session, has its hit-test source
\* resolved in this step.
OwnChainResolves(i) ==
    /\ session # 0
    /\ chains[i].sess = session
    /\ chains[i].step = "source"
    /\ HitTestSourceResolved
    /\ Len(chains') = Len(chains)
    /\ chains'[i].step = "resolved"

\* C18: when the chain of the presenting session resolves, its source is
\* stored in hitTestSource, and from then on hitTestSource keeps that source
\* (so every frame samples it) in every step except the end of the session.
C18_SourceKeptUntilEnd ==
    [][/\ \A i \in 1..Len(chains) : OwnChainResolves(i) => hitTestSource' = session
       /\ (session # 0 /\ hitTestSource = session /\ ~SessionEnd)
             => hitTestSource' = hitTestSource]_vars

\* C19: acquisition is re-armed per session.  The flag is set exactly while
\* the presenting session has its one chain; a session starts with the flag
\* clear and no chain of its own, whatever became of earlier chains; its
\* first frame appends a new chain for it; and no other step starts a chain.
\* So the chains started are one per session that received a frame.
C19_RearmedPerSession ==
    /\ [](hitTestSourceRequested = (session # 0 /\ StartedFor(session) = 1))
    /\ [][/\ SessionStart =>
                (~hitTestSourceRequested' /\ StartedForNext(session') = 0)
          /\ (Frame /\ StartedFor(session) = 0) =>
                /\ Len(chains') = Len(chains) + 1
                /\ chains'[Len(chains')] = [sess |-> session, step |-> "refspace"]
          /\ Len(chains') > Len(chains) =>
                (Frame /\ StartedFor(session) = 0)]_vars

\* C19 witness: a second session has started its own chain while the chain
\* of the first session is still pending.
C19_Witness ==
    /\ session >= 2
    /\ StartedFor(session) = 1
    /\ StartedFor(1) = 1
    /\ \E i \in 1..Len(chains) : chains[i].sess = 1 /\ chains[i].step = "source"

\* C20: from every reachable state the 'sessionend' handler and the 'end'
\* listener give the same state in either order, and that state, like the
\* state the 'sessionend' handler gives alone, has no hit-test source, a
\* clear request flag, and the same asset and controls.
C20_EndHandlersCommute ==
    LET both == OnEnd(OnSessionEnd(Globals))
        swapped == OnSessionEnd(OnEnd(Globals))
        alone == OnSessionEnd(Globals)
    IN  /\ both = swapped
        /\ both.hitTestSource = 0 /\ both.hitTestSourceRequested = FALSE
        /\ alone.hitTestSource = 0 /\ alone.hitTestSourceRequested = FALSE
        /\ alone.splat = both.splat
        /\ alone.controls = both.controls

\* C20 witness: a presenting session with a stored source, its request flag
\* set and the asset placed, where each handler changes the state and the
\* two handlers alone give different states.
C20_Witness ==
    /\ session # 0
    /\ hitTestSource # 0
    /\ hitTestSourceRequested
    /\ splat.position # DefaultPosition
    /\ OnEnd(Globals) # Globals
    /\ OnEnd(Globals) # OnSessionEnd(Globals)
    /\ OnEnd(OnSessionEnd(Globals)) # Globals

\* The asset is shown at the default position with unit scale.
AtDefault(s) ==
    /\ s.visible = TRUE
    /\ s.position = DefaultPosition
    /\ s.scale = UnitScale

\* C21: whenever no session is presenting, the current asset is visible at
\* the default position with unit scale; and the end of a session leaves the
\* asset so, whatever placement the session made.
C21_InspectionDefaults ==
    /\ [](session = 0 => AtDefault(splat))
    /\ [][SessionEnd => AtDefault(splat')]_vars

\* C21 witness: no session is presenting, after a session that sampled a hit
\* has ended and a load has replaced the initial asset, and the asset is
\* shown at the default position.
C21_Witness ==
    /\ session = 0
    /\ sessions >= 1
    /\ reticle.visible
    /\ created >= 2
    /\ AtDefault(splat)

====
